---- MODULE Spec2Model ----
(***************************************************************************)
(* Event-management backend: CRUD endpoints over events, venues,           *)
(* attendees and bookings, and poster, video and venue-photo storage, on   *)
(* one document store.                                                     *)
(* The store calls (insert_one, find_one, find, update_one, delete_one)    *)
(* are the atomic steps; a handler that awaits two store calls (update)    *)
(* is two steps, so that other requests interleave between them.           *)
(***************************************************************************)
EXTENDS Integers, Sequences, FiniteSets, TLC

VARIABLES
    client,     \* database.client: "None", or the Motor client: "client" when
                \* its calls reach the server, "unreachable" or "closed"
    database,   \* database.database: "None" or the database handle
    entity,     \* the entity whose endpoints this behaviour exercises
    store,      \* collection name -> sequence of documents, natural order
    nextOid,    \* number of ObjectIds generated so far
    clock,      \* datetime.utcnow() at BSON (millisecond) resolution
    pending,    \* update requests between their find_one and their update_one
    resp,       \* the response sent last
    calls,      \* the store calls issued by the request answered last, in order
    submitted,  \* history: payloads of creates not updated or deleted since,
                \* and the files of the uploads that succeeded
    deleted     \* history: <<collection, ObjectId>> of successful deletes

vars == <<client, database, entity, store, nextOid, clock, pending, resp,
          calls, submitted, deleted>>

-----------------------------------------------------------------------------
(* Bounds of the model *)

MaxIds == 2          \* inserts per behaviour
MaxPending == 1      \* update requests in flight at once
MaxRacing == 2       \* update requests in flight at once in SpecRace
MaxOver == 1         \* SpecList: stored records beyond the listing cap

ListLimit == 100     \* to_list(100)
MaxVideoBytes == 16 * 1024 * 1024   \* the size check of the video upload
MaxBsonSize == 16 * 1024 * 1024     \* the store's document size limit
ObjectIdHexLen == 24 \* str(ObjectId): 12 bytes, two hex digits each

None == "None"
Values == {"v1", "v2"}

EntityCollections == {"events", "venues", "attendees", "bookings"}
AssetCollections == {"event_posters", "promotional_videos", "venue_photos"}
Collections == EntityCollections \cup AssetCollections

\* Event, Venue, Attendee, Booking (and their *Update variants)
Fields(c) ==
    CASE c = "events" -> {"name", "description", "date", "venue_id", "max_attendees"}
      [] c = "venues" -> {"name", "address", "capacity"}
      [] c = "attendees" -> {"name", "email", "phone"}
      [] c = "bookings" -> {"event_id", "attendee_id", "ticket_type", "quantity"}

\* fields without a default in the create model
Required(c) == IF c = "attendees" THEN {"name", "email"} ELSE Fields(c)

\* Model.dict(exclude_none=True): the fields that hold a value
DictExcludeNone(c, p) ==
    [f \in {g \in Fields(c) \cap DOMAIN p : p[g] # None} |-> p[f]]

\* Model.dict(): every declared field, a field not supplied takes its default
Dict(c, p) == [f \in Fields(c) |-> IF f \in DOMAIN p THEN p[f] ELSE None]

\* EventUpdate(**body) and its kin: every field Optional with default None,
\* and the set of fields the body supplied
UpdateModel(c, body) ==
    [fields |-> [f \in Fields(c) |-> IF f \in DOMAIN body THEN body[f] ELSE None],
     fields_set |-> DOMAIN body]

\* model.dict(exclude_unset=True): the supplied fields only, null ones included
DictExcludeUnset(m) == [f \in m.fields_set |-> m.fields[f]]

-----------------------------------------------------------------------------
(* Identifiers: an ObjectId is a number, its string form 24 hex digits *)

HexLower == <<"0", "1", "2", "3", "4", "5", "6", "7",
              "8", "9", "a", "b", "c", "d", "e", "f">>
HexUpper == <<"0", "1", "2", "3", "4", "5", "6", "7",
              "8", "9", "A", "B", "C", "D", "E", "F">>

RECURSIVE HexDigits(_, _, _)
HexDigits(n, len, alphabet) ==
    IF len = 0 THEN <<>>
    ELSE Append(HexDigits(n \div 16, len - 1, alphabet), alphabet[(n % 16) + 1])

\* a driver that hands out the same ObjectId again
NewObjectIdReused(k) == 16 * 10 + 1

\* the k-th ObjectId the driver generates
NewObjectId(k) == 16 * 10 + k

\* the string forms of the ObjectIds of the model, computed once
StrTable ==
    [oid \in {NewObjectId(k) : k \in 1..(MaxIds + 1 + ListLimit + MaxOver)} |->
        HexDigits(oid, ObjectIdHexLen, HexLower)]

\* str(ObjectId)
ObjectIdStr(oid) ==
    IF oid \in DOMAIN StrTable THEN StrTable[oid]
    ELSE HexDigits(oid, ObjectIdHexLen, HexLower)

\* int(ch, 16) for the hex digits of either case
HexTable ==
    [ch \in {HexLower[k] : k \in 1..16} \cup {HexUpper[k] : k \in 1..16} |->
        IF \E k \in 1..16 : HexLower[k] = ch
        THEN (CHOOSE k \in 1..16 : HexLower[k] = ch) - 1
        ELSE (CHOOSE k \in 1..16 : HexUpper[k] = ch) - 1]

HexValue(ch) == IF ch \in DOMAIN HexTable THEN HexTable[ch] ELSE -1

RECURSIVE HexParse(_, _)
HexParse(s, k) ==
    IF k = 0 THEN 0 ELSE 16 * HexParse(s, k - 1) + HexValue(s[k])

\* ObjectId(id_string): 24 hex digits of either case, anything else InvalidId
ParseObjectId(id_string) ==
    IF Len(id_string) = ObjectIdHexLen
       /\ \A k \in 1..Len(id_string) : HexValue(id_string[k]) >= 0
    THEN [ok |-> TRUE, oid |-> HexParse(id_string, Len(id_string))]
    ELSE [ok |-> FALSE, oid |-> -1]

UpperStr(oid) == HexDigits(oid, ObjectIdHexLen, HexUpper)

\* request identifiers: the ids the store generates within the bounds and one
\* it never does, an id in upper case, and a short and a non-hex string
WellFormedIds ==
    {ObjectIdStr(NewObjectId(k)) : k \in 1..(MaxIds + 1)} \cup {UpperStr(NewObjectId(1))}

MalformedIds ==
    LET s == ObjectIdStr(NewObjectId(1)) IN
    {SubSeq(s, 1, Len(s) - 1), [s EXCEPT ![1] = "g"]}

IdInputs == WellFormedIds \cup MalformedIds

\* ParseObjectId on the request identifiers of the model, computed once
ParseTable == [i \in IdInputs |-> ParseObjectId(i)]

\* a validation that lets every string through, as an id of no record
validate_object_id_lenient(id_string) ==
    IF ParseObjectId(id_string).ok THEN ParseObjectId(id_string)
    ELSE [ok |-> TRUE, oid |-> -1]

\* validate_object_id: the ObjectId, or ValueError (ok = FALSE)
validate_object_id(id_string) ==
    IF id_string \in DOMAIN ParseTable THEN ParseTable[id_string]
    ELSE ParseObjectId(id_string)

-----------------------------------------------------------------------------
(* The document store *)

EmptyStore == [c \in Collections |-> <<>>]

\* position of the document with this _id in a collection, 0 when none
IndexOf(docs, oid) ==
    IF \E k \in 1..Len(docs) : docs[k]["_id"] = oid
    THEN CHOOSE k \in 1..Len(docs) : docs[k]["_id"] = oid
    ELSE 0

Exists(st, c, oid) == IndexOf(st[c], oid) # 0

\* an insert that replaces what the collection held
insert_replacing(st, c, doc, oid) ==
    [st EXCEPT ![c] = <<[f \in DOMAIN doc \cup {"_id"} |->
                            IF f = "_id" THEN oid ELSE doc[f]]>>]

\* an insert under a unique index over all fields: a document equal to a
\* stored one but for its _id is not inserted
insert_one_unique(st, c, doc, oid) ==
    IF \E k \in 1..Len(st[c]) : \A f \in DOMAIN doc : st[c][k][f] = doc[f]
    THEN st
    ELSE [st EXCEPT ![c] = Append(@, [f \in DOMAIN doc \cup {"_id"} |->
                                        IF f = "_id" THEN oid ELSE doc[f]])]

\* collection.insert_one(doc): the driver adds the generated _id
insert_one(st, c, doc, oid) ==
    [st EXCEPT ![c] = Append(@, [f \in DOMAIN doc \cup {"_id"} |->
                                    IF f = "_id" THEN oid ELSE doc[f]])]

\* collection.find_one({"_id": oid}): the position of the match, 0 for None
find_one(st, c, oid) == IndexOf(st[c], oid)

\* replacement instead of $set: the update's fields and the _id only
ReplaceFields(doc, upd) ==
    [f \in DOMAIN upd \cup {"_id"} |-> IF f \in DOMAIN upd THEN upd[f] ELSE doc[f]]

\* $set torn apart: one field of the update is written, the others are not
SetOneField(doc, upd) ==
    LET g == CHOOSE f \in DOMAIN upd : TRUE IN
    [f \in DOMAIN doc \cup {g} |-> IF f = g THEN upd[f] ELSE doc[f]]

\* $set: the fields of the update replace or extend those of the document
SetFields(doc, upd) ==
    [f \in DOMAIN doc \cup DOMAIN upd |-> IF f \in DOMAIN upd THEN upd[f] ELSE doc[f]]

\* update_one with upsert: a filter that matches nothing inserts a document
update_one_upsert(st, c, oid, upd) ==
    LET k == IndexOf(st[c], oid) IN
    IF k = 0
    THEN [matched_count |-> 0, modified_count |-> 0,
          store |-> [st EXCEPT ![c] = Append(@, [f \in DOMAIN upd \cup {"_id"} |->
                                                   IF f = "_id" THEN oid ELSE upd[f]])]]
    ELSE LET new == SetFields(st[c][k], upd) IN
         [matched_count |-> 1,
          modified_count |-> IF new = st[c][k] THEN 0 ELSE 1,
          store |-> [st EXCEPT ![c][k] = new]]

\* an update_one that counts every matched document as modified
update_one_matched(st, c, oid, upd) ==
    LET k == IndexOf(st[c], oid) IN
    IF k = 0
    THEN [matched_count |-> 0, modified_count |-> 0, store |-> st]
    ELSE [matched_count |-> 1, modified_count |-> 1,
          store |-> [st EXCEPT ![c][k] = SetFields(st[c][k], upd)]]

\* collection.update_one({"_id": oid}, {"$set": upd}), no upsert
update_one(st, c, oid, upd) ==
    LET k == IndexOf(st[c], oid) IN
    IF k = 0
    THEN [matched_count |-> 0, modified_count |-> 0, store |-> st]
    ELSE LET new == SetFields(st[c][k], upd) IN
         [matched_count |-> 1,
          modified_count |-> IF new = st[c][k] THEN 0 ELSE 1,
          store |-> [st EXCEPT ![c][k] = new]]

RemoveAt(docs, k) == SubSeq(docs, 1, k - 1) \o SubSeq(docs, k + 1, Len(docs))

\* delete_many({}) in place of delete_one: a match empties the collection
delete_many(st, c, oid) ==
    IF IndexOf(st[c], oid) = 0
    THEN [deleted_count |-> 0, store |-> st]
    ELSE [deleted_count |-> Len(st[c]), store |-> [st EXCEPT ![c] = <<>>]]

\* a delete that also removes the stored assets
delete_cascade(st, c, oid) ==
    LET k == IndexOf(st[c], oid) IN
    IF k = 0
    THEN [deleted_count |-> 0, store |-> st]
    ELSE [deleted_count |-> 1,
          store |-> [d \in DOMAIN st |->
                        IF d = c THEN RemoveAt(st[c], k)
                        ELSE IF d \in AssetCollections THEN <<>> ELSE st[d]]]

\* collection.delete_one({"_id": oid})
delete_one(st, c, oid) ==
    LET k == IndexOf(st[c], oid) IN
    IF k = 0
    THEN [deleted_count |-> 0, store |-> st]
    ELSE [deleted_count |-> 1, store |-> [st EXCEPT ![c] = RemoveAt(@, k)]]

\* cursor.to_list(None): every document of the cursor
to_list_unbounded(docs, n) == docs

\* cursor.to_list(n): the first n documents of the cursor
to_list(docs, n) == SubSeq(docs, 1, IF Len(docs) < n THEN Len(docs) ELSE n)

\* document["_id"] = str(document["_id"])
WithStrId(doc) == [doc EXCEPT !["_id"] = ObjectIdStr(@)]

\* a find that ignores its filter
find_unfiltered(docs, field, value) == 1..Len(docs)

\* find({field: value}, {"content": 0}): the positions of the matches
find_by_field(docs, field, value) == {k \in 1..Len(docs) : docs[k][field] = value}

\* the projection {"content": 0}
WithoutContent(doc) == [f \in DOMAIN doc \ {"content"} |-> doc[f]]

\* how many of the matches at positions M come before the one at k when
\* sorted newest first; equal timestamps come in natural order or its reverse
Rank(docs, M, ties, k) ==
    Cardinality({j \in M :
        \/ docs[j]["uploaded_at"] > docs[k]["uploaded_at"]
        \/ /\ docs[j]["uploaded_at"] = docs[k]["uploaded_at"]
           /\ IF ties = "natural" THEN j < k ELSE j > k})

\* the documents in the order of their ranks
InRankOrder(docs, ranked) ==
    [p \in 1..Cardinality(ranked) |->
        docs[(CHOOSE pr \in ranked : pr[1] = p - 1)[2]]]

\* cursor.sort("uploaded_at", -1) over the matches at positions M
SortDescending(docs, M, ties) ==
    InRankOrder(docs, {<<Rank(docs, M, ties, k), k>> : k \in M})

\* find_one({field: value}, sort=[("uploaded_at", -1)]): the position of the
\* first match in sorted order, 0 for None
find_one_sorted(docs, field, value, ties) ==
    LET M == find_by_field(docs, field, value) IN
    IF M = {} THEN 0 ELSE CHOOSE k \in M : Rank(docs, M, ties, k) = 0

TieOrders == {"natural", "reverse"}

\* the field of an asset document that names its owner
OwnerField(c) == IF c = "venue_photos" THEN "venue_id" ELSE "event_id"

\* BSON: an element is a type byte, its name as a C string and its value; a
\* string value is an int32 length, the bytes and a terminator
ElementSize(name, value_size) == 1 + Len(name) + 1 + value_size

StringSize(str) == 4 + Len(str) + 1

\* the encoded size of an asset document: int32 length, the elements (_id an
\* ObjectId of 12 bytes, three strings, the content as binary with an int32
\* length and a subtype byte, uploaded_at a datetime of 8 bytes), a terminator
BsonSize(c, doc) ==
    4 + ElementSize("_id", 12)
      + ElementSize(OwnerField(c), StringSize(doc[OwnerField(c)]))
      + ElementSize("filename", StringSize(doc.filename))
      + ElementSize("content_type", StringSize(doc.content_type))
      + ElementSize("content", 4 + 1 + doc.content.len)
      + ElementSize("uploaded_at", 8)
      + 1

\* a store without a document size limit
NeverTooLarge(c, doc) == FALSE

\* insert_one raises DocumentTooLarge for a document over the store's limit
DocumentTooLarge(c, doc) == BsonSize(c, doc) > MaxBsonSize

\* datetime.isoformat()
Isoformat(t) == [iso |-> t]

-----------------------------------------------------------------------------
(* app/database.py helpers *)

get_database(db) == db

\* `if not db`: None is falsy; a handle is truthy or its __bool__ raises
NotDb(db, truth) ==
    IF db = None THEN "true"
    ELSE IF truth = "truthy" THEN "false" ELSE "raise"

\* a store call through a client that is closed, or whose server selection
\* times out, raises
StoreRaises(cl) == cl # "client"

\* find_by_id, update_by_id and delete_by_id come to their store call with a
\* handle and a well-formed id
ReachesStore(db, item_id) ==
    get_database(db) # None /\ validate_object_id(item_id).ok

\* ensure_database(): the handle, or a server error when there is none
ensure_database(db) == [ok |-> db # None, status |-> IF db # None THEN 200 ELSE 500]

NoDocument == [found |-> FALSE, doc |-> <<>>]

find_by_id(db, st, c, item_id) ==
    IF get_database(db) = None THEN NoDocument
    ELSE LET v == validate_object_id(item_id) IN
         IF ~v.ok THEN NoDocument
         ELSE LET k == find_one(st, c, v.oid) IN
              IF k = 0 THEN NoDocument
              ELSE [found |-> TRUE, doc |-> WithStrId(st[c][k])]

\* the update data as it came, null fields kept
KeepNone(update_data) == update_data

\* {k: v for k, v in update_data.items() if v is not None}
FilterNone(update_data) ==
    [f \in {g \in DOMAIN update_data : update_data[g] # None} |-> update_data[f]]

\* update_by_id that writes and reports failure all the same
update_by_id_unreported(db, st, c, item_id, update_data) ==
    IF get_database(db) = None THEN [ok |-> FALSE, store |-> st]
    ELSE LET v == validate_object_id(item_id) IN
         IF ~v.ok THEN [ok |-> FALSE, store |-> st]
         ELSE LET filtered_update == FilterNone(update_data) IN
              IF DOMAIN filtered_update = {} THEN [ok |-> FALSE, store |-> st]
              ELSE [ok |-> FALSE,
                    store |-> update_one(st, c, v.oid, filtered_update).store]

update_by_id(db, st, c, item_id, update_data) ==
    IF get_database(db) = None THEN [ok |-> FALSE, store |-> st]
    ELSE LET v == validate_object_id(item_id) IN
         IF ~v.ok THEN [ok |-> FALSE, store |-> st]
         ELSE LET filtered_update == FilterNone(update_data) IN
              IF DOMAIN filtered_update = {} THEN [ok |-> FALSE, store |-> st]
              ELSE LET result == update_one(st, c, v.oid, filtered_update) IN
                   [ok |-> result.modified_count > 0, store |-> result.store]

\* delete_by_id that reports success whenever the delete was issued
delete_by_id_idempotent(db, st, c, item_id) ==
    IF get_database(db) = None THEN [ok |-> FALSE, store |-> st]
    ELSE LET v == validate_object_id(item_id) IN
         IF ~v.ok THEN [ok |-> FALSE, store |-> st]
         ELSE [ok |-> TRUE, store |-> delete_one(st, c, v.oid).store]

\* delete_by_id that reports a malformed id as deleted
delete_by_id_invalid_true(db, st, c, item_id) ==
    IF get_database(db) = None THEN [ok |-> FALSE, store |-> st]
    ELSE LET v == ParseObjectId(item_id) IN
         IF ~v.ok THEN [ok |-> TRUE, store |-> st]
         ELSE LET result == delete_one(st, c, v.oid) IN
              [ok |-> result.deleted_count > 0, store |-> result.store]

delete_by_id(db, st, c, item_id) ==
    IF get_database(db) = None THEN [ok |-> FALSE, store |-> st]
    ELSE LET v == validate_object_id(item_id) IN
         IF ~v.ok THEN [ok |-> FALSE, store |-> st]
         ELSE LET result == delete_one(st, c, v.oid) IN
              [ok |-> result.deleted_count > 0, store |-> result.store]

-----------------------------------------------------------------------------
(* Requests and responses *)

NoBody == <<>>

\* found: the handler's first lookup matched a record; existed: the record
\* was in the store when the response was decided (both for the by-id requests)
Response(op, c, i, status, found, existed, data, body) ==
    [op |-> op, coll |-> c, id |-> i, status |-> status, found |-> found,
     existed |-> existed, data |-> data, body |-> body]

\* no store call issued
NoCalls == <<>>

NoResponse == Response("none", "none", <<>>, 0, FALSE, FALSE, NoBody, NoBody)

ExistsId(st, c, i) ==
    LET v == validate_object_id(i) IN v.ok /\ Exists(st, c, v.oid)

\* the connection check of create and list: ensure_database in events and
\* venues, `if db is None` in bookings, `if not db` in attendees
ConnectionCheck(c, db, truth) ==
    CASE c \in {"events", "venues"} -> ensure_database(db).status
      [] c = "bookings" -> IF get_database(db) = None THEN 500 ELSE 200
      [] c = "attendees" ->
            IF NotDb(get_database(db), truth) = "false" THEN 200 ELSE 500

\* bool(handle): True in a driver without __bool__, NotImplementedError in one
\* that delegates it to the synchronous driver
HandleTruth == {"truthy", "raises"}

-----------------------------------------------------------------------------
(* Inputs *)

CreateValue == "v1"

\* valid create bodies: the required fields, attendees with or without phone
CreatePayloads(c) ==
    {[f \in Required(c) |-> CreateValue]}
      \cup (IF c = "attendees"
            THEN {[f \in Fields(c) |-> IF f = "phone" THEN v ELSE CreateValue] :
                    v \in {CreateValue, None}}
            ELSE {})

\* the fields the update bodies of the model range over
PayloadFields(c) ==
    CASE c = "events" -> {"name", "max_attendees"}
      [] c = "venues" -> {"name", "capacity"}
      [] c = "attendees" -> {"name", "phone"}
      [] c = "bookings" -> {"ticket_type", "quantity"}

Primary(c) ==
    CASE c = "events" -> "name"
      [] c = "venues" -> "capacity"
      [] c = "attendees" -> "name"
      [] c = "bookings" -> "quantity"

\* update bodies: nothing, one field (null, the created value, a new value),
\* and two fields, one new and one null
UpdatePayloads(c) ==
    {b \in UNION {[S -> Values \cup {None}] : S \in SUBSET PayloadFields(c)} :
        \/ DOMAIN b \subseteq {Primary(c)}
        \/ \A f \in DOMAIN b : b[f] = IF f = Primary(c) THEN "v2" ELSE None}

-----------------------------------------------------------------------------
(* Actions *)

Init ==
    /\ client = None
    /\ database = None
    /\ entity \in EntityCollections
    /\ store = EmptyStore
    /\ nextOid = 0
    /\ clock = 0
    /\ pending = {}
    /\ resp = NoResponse
    /\ calls = NoCalls
    /\ submitted = {}
    /\ deleted = {}

\* connect_to_mongo(): client and database are assigned, then the server is
\* pinged; a failed ping is re-raised and leaves both assigned
connect_to_mongo(ping) ==
    /\ client = None
    /\ client' = IF ping = "ok" THEN "client" ELSE "unreachable"
    /\ database' = "db"
    /\ UNCHANGED <<entity, store, nextOid, clock, pending, resp, calls, submitted,
                   deleted>>

\* the startup event with the server answering the ping
ConnectToMongo == connect_to_mongo("ok")

\* a shutdown that also forgets the client and the handle
close_and_reset ==
    /\ client \notin {None, "closed"}
    /\ client' = None
    /\ database' = None
    /\ UNCHANGED <<entity, store, nextOid, clock, pending, resp, calls, submitted,
                   deleted>>

\* close_mongo_connection(): the shutdown event; the client is closed, and
\* client and database stay assigned
close_mongo_connection ==
    /\ client \notin {None, "closed"}
    /\ client' = "closed"
    /\ UNCHANGED <<database, entity, store, nextOid, clock, pending, resp, calls,
                   submitted, deleted>>

\* the server stops answering: server selection times out from now on
ServerLost ==
    /\ client = "client"
    /\ client' = "unreachable"
    /\ UNCHANGED <<database, entity, store, nextOid, clock, pending, resp, calls,
                   submitted, deleted>>

\* the server answers again
ServerBack ==
    /\ client = "unreachable"
    /\ client' = "client"
    /\ UNCHANGED <<database, entity, store, nextOid, clock, pending, resp, calls,
                   submitted, deleted>>

\* settings.database_name
DatabaseName == "event_management_db"

\* a health report that claims a connection whatever the handle
health_check_optimistic(db) ==
    [status |-> "healthy", database |-> DatabaseName, connected |-> TRUE]

\* the body of GET /health
health_check(db) ==
    [status |-> "healthy", database |-> DatabaseName, connected |-> db # None]

\* GET /health
HealthCheck ==
    /\ resp' = Response("health", "none", <<>>, 200, FALSE, FALSE, NoBody,
                        health_check(database))
    /\ calls' = NoCalls
    /\ UNCHANGED <<client, database, entity, store, nextOid, clock, pending,
                   submitted, deleted>>

\* a failed store call that is issued once more before the request ends
RaisedAfterRetry(op, c, i, data, issued) ==
    /\ resp' = Response(op, c, i, 500, FALSE, FALSE, data, NoBody)
    /\ calls' = issued \o <<issued[Len(issued)]>>
    /\ UNCHANGED <<client, database, entity, store, nextOid, clock, pending,
                   submitted, deleted>>

\* an unhandled exception of a store call: the request is answered 500
Raised(op, c, i, data, issued) ==
    /\ resp' = Response(op, c, i, 500, FALSE, FALSE, data, NoBody)
    /\ calls' = issued
    /\ UNCHANGED <<client, database, entity, store, nextOid, clock, pending,
                   submitted, deleted>>

\* POST /events, /venues, /attendees, /bookings
CreateEntity(c, p, truth) ==
    LET check == ConnectionCheck(c, database, truth) IN
    IF check # 200
    THEN /\ resp' = Response("create", c, <<>>, check, FALSE, FALSE, p, NoBody)
         /\ calls' = NoCalls
         /\ UNCHANGED <<client, database, entity, store, nextOid, clock, pending,
                        submitted, deleted>>
    ELSE IF StoreRaises(client) THEN Raised("create", c, <<>>, p, <<"insert_one">>)
    ELSE /\ nextOid < MaxIds
         /\ LET oid == NewObjectId(nextOid + 1) IN
            /\ store' = insert_one(store, c, Dict(c, p), oid)
            /\ nextOid' = nextOid + 1
            /\ resp' = Response("create", c, ObjectIdStr(oid), 201, FALSE, FALSE,
                                p, NoBody)
            /\ submitted' = submitted \cup
                    {[coll |-> c, id |-> ObjectIdStr(oid), payload |-> p]}
         /\ calls' = <<"insert_one">>
         /\ UNCHANGED <<client, database, entity, clock, pending, deleted>>

\* GET /events, /venues, /attendees, /bookings
ListEntities(c, truth) ==
    LET check == ConnectionCheck(c, database, truth) IN
    IF check = 200 /\ StoreRaises(client)
    THEN Raised("list", c, <<>>, NoBody, <<"find">>)
    ELSE
    /\ resp' = IF check # 200
               THEN Response("list", c, <<>>, check, FALSE, FALSE, NoBody, NoBody)
               ELSE LET docs == to_list(store[c], ListLimit) IN
                    Response("list", c, <<>>, 200, FALSE, FALSE, NoBody,
                             [k \in 1..Len(docs) |-> WithStrId(docs[k])])
    /\ calls' = IF check # 200 THEN NoCalls ELSE <<"find">>
    /\ UNCHANGED <<client, database, entity, store, nextOid, clock, pending,
                   submitted, deleted>>

\* GET /<entity>/{id}
GetEntity(c, i) ==
    LET r == find_by_id(database, store, c, i) IN
    IF ReachesStore(database, i) /\ StoreRaises(client)
    THEN Raised("get", c, i, NoBody, <<"find_one">>)
    ELSE
    /\ resp' = IF ~r.found
               THEN Response("get", c, i, 404, FALSE, ExistsId(store, c, i),
                             NoBody, NoBody)
               ELSE Response("get", c, i, 200, TRUE, ExistsId(store, c, i),
                             NoBody, r.doc)
    /\ calls' = IF ReachesStore(database, i) THEN <<"find_one">> ELSE NoCalls
    /\ UNCHANGED <<client, database, entity, store, nextOid, clock, pending,
                   submitted, deleted>>

\* PUT /<entity>/{id}, up to the existence check, with at most limit update
\* requests past it at once
UpdateFindWithin(c, i, body, limit) ==
    LET r == find_by_id(database, store, c, i)
        update_data == DictExcludeUnset(UpdateModel(c, body)) IN
    IF ReachesStore(database, i) /\ StoreRaises(client)
    THEN Raised("update", c, i, NoBody, <<"find_one">>)
    ELSE IF ~r.found
    THEN /\ resp' = Response("update", c, i, 404, FALSE, ExistsId(store, c, i),
                             NoBody, NoBody)
         /\ calls' = IF ReachesStore(database, i) THEN <<"find_one">> ELSE NoCalls
         /\ UNCHANGED <<client, database, entity, store, nextOid, clock, pending,
                        submitted, deleted>>
    ELSE /\ Cardinality(pending) < limit
         /\ pending' = pending \cup {[coll |-> c, id |-> i, data |-> update_data]}
         /\ UNCHANGED <<client, database, entity, store, nextOid, clock, resp, calls,
                        submitted, deleted>>

UpdateFind(c, i, body) == UpdateFindWithin(c, i, body, MaxPending)

\* PUT /<entity>/{id}, from update_by_id to the response
UpdateWrite(r) ==
    LET u == update_by_id(database, store, r.coll, r.id, r.data)
        writes == ReachesStore(database, r.id) /\ DOMAIN FilterNone(r.data) # {} IN
    /\ r \in pending
    /\ pending' = pending \ {r}
    /\ IF writes /\ StoreRaises(client)
       THEN /\ resp' = Response("update", r.coll, r.id, 500, TRUE, FALSE, r.data,
                                NoBody)
            /\ UNCHANGED <<store, submitted>>
       ELSE /\ store' = u.store
            /\ resp' = Response("update", r.coll, r.id, IF u.ok THEN 200 ELSE 400,
                                TRUE, ExistsId(store, r.coll, r.id), r.data, NoBody)
            /\ submitted' = IF u.ok
                            THEN {e \in submitted :
                                    ~(e.coll = r.coll
                                      /\ validate_object_id(e.id).oid
                                            = validate_object_id(r.id).oid)}
                            ELSE submitted
    /\ calls' = IF writes THEN <<"find_one", "update_one">> ELSE <<"find_one">>
    /\ UNCHANGED <<client, database, entity, nextOid, clock, deleted>>

\* DELETE /<entity>/{id}
DeleteEntity(c, i) ==
    LET d == delete_by_id(database, store, c, i) IN
    IF ReachesStore(database, i) /\ StoreRaises(client)
    THEN Raised("delete", c, i, NoBody, <<"delete_one">>)
    ELSE
    /\ store' = d.store
    /\ resp' = Response("delete", c, i, IF d.ok THEN 200 ELSE 404, d.ok,
                        ExistsId(store, c, i), NoBody, NoBody)
    /\ calls' = IF ReachesStore(database, i) THEN <<"delete_one">> ELSE NoCalls
    /\ submitted' = IF d.ok
                    THEN {e \in submitted :
                            ~(e.coll = c /\ validate_object_id(e.id).oid
                                                = validate_object_id(i).oid)}
                    ELSE submitted
    /\ deleted' = IF d.ok THEN deleted \cup {<<c, validate_object_id(i).oid>>}
                  ELSE deleted
    /\ UNCHANGED <<client, database, entity, nextOid, clock, pending>>

\* the asset kinds whose upload checks len(content): promotional videos
SizeChecked == {"promotional_videos"}

\* the upload handlers; t is utcnow() as the handler read it: the current
\* time, or that of an upload request still running
UploadAsset(c, owner_id, file, t) ==
    LET doc == [f \in {OwnerField(c), "filename", "content_type", "content",
                       "uploaded_at"} |->
                  CASE f = OwnerField(c) -> owner_id
                    [] f = "filename" -> file.filename
                    [] f = "content_type" -> file.content_type
                    [] f = "content" -> file.content
                    [] f = "uploaded_at" -> t]
        request == [owner |-> owner_id, file |-> file]
        Failed(status, issued) ==
            /\ resp' = Response("upload", c, <<>>, status, FALSE, FALSE, request,
                                NoBody)
            /\ calls' = issued
            /\ UNCHANGED <<client, database, entity, store, nextOid, clock, pending,
                           submitted, deleted>> IN
    IF get_database(database) = None THEN Failed(500, NoCalls)
    ELSE IF c \in SizeChecked /\ file.content.len > MaxVideoBytes
    THEN Failed(400, NoCalls)
    ELSE IF DocumentTooLarge(c, doc) \/ StoreRaises(client)
    THEN Failed(500, <<"insert_one">>)
    ELSE /\ nextOid < MaxIds
         /\ LET oid == NewObjectId(nextOid + 1) IN
            /\ store' = insert_one(store, c, doc, oid)
            /\ nextOid' = nextOid + 1
            /\ resp' = Response("upload", c, ObjectIdStr(oid), 201, FALSE, FALSE,
                                request, NoBody)
            /\ submitted' = submitted \cup
                    {[coll |-> c, id |-> ObjectIdStr(oid), payload |-> request]}
         /\ clock' = IF t > clock THEN t ELSE clock
         /\ calls' = <<"insert_one">>
         /\ UNCHANGED <<client, database, entity, pending, deleted>>

\* POST /upload_event_poster/{event_id}
UploadEventPoster(event_id, file, t) == UploadAsset("event_posters", event_id, file, t)

\* POST /upload_promotional_video/{event_id}
UploadPromotionalVideo(event_id, file, t) ==
    UploadAsset("promotional_videos", event_id, file, t)

\* POST /upload_venue_photo/{venue_id}
UploadVenuePhoto(venue_id, file, t) == UploadAsset("venue_photos", venue_id, file, t)

\* GET /event_poster/{event_id} and GET /promotional_video/{event_id}
GetAssetMetadata(c, event_id, ties) ==
    IF get_database(database) # None /\ StoreRaises(client)
    THEN Raised("metadata", c, event_id, NoBody, <<"find_one">>)
    ELSE
    /\ resp' = IF get_database(database) = None
               THEN Response("metadata", c, event_id, 500, FALSE, FALSE, NoBody, NoBody)
               ELSE LET k == find_one_sorted(store[c], "event_id", event_id, ties) IN
                    IF k = 0
                    THEN Response("metadata", c, event_id, 404, FALSE, FALSE, NoBody,
                                  NoBody)
                    ELSE LET asset == store[c][k] IN
                         Response("metadata", c, event_id, 200, TRUE, TRUE, NoBody,
                                  [id |-> ObjectIdStr(asset["_id"]),
                                   event_id |-> asset["event_id"],
                                   filename |-> asset["filename"],
                                   content_type |-> asset["content_type"],
                                   uploaded_at |-> Isoformat(asset["uploaded_at"])])
    /\ calls' = IF get_database(database) = None THEN NoCalls ELSE <<"find_one">>
    /\ UNCHANGED <<client, database, entity, store, nextOid, clock, pending,
                   submitted, deleted>>

\* GET /event_poster/file/{id}, /promotional_video/file/{id}, /venue_photo/file/{id}
GetAssetFile(c, i) ==
    IF ReachesStore(database, i) /\ StoreRaises(client)
    THEN Raised("file", c, i, NoBody, <<"find_one">>)
    ELSE
    /\ resp' = IF get_database(database) = None
               THEN Response("file", c, i, 500, FALSE, FALSE, NoBody, NoBody)
               ELSE LET v == validate_object_id(i) IN
                    IF ~v.ok
                    THEN Response("file", c, i, 400, FALSE, FALSE, NoBody, NoBody)
                    ELSE LET k == find_one(store, c, v.oid) IN
                         IF k = 0
                         THEN Response("file", c, i, 404, FALSE, FALSE, NoBody, NoBody)
                         ELSE Response("file", c, i, 200, TRUE, TRUE, NoBody,
                                       [content |-> store[c][k]["content"],
                                        media_type |-> store[c][k]["content_type"],
                                        disposition |->
                                            <<"inline", store[c][k]["filename"]>>])
    /\ calls' = IF ReachesStore(database, i) THEN <<"find_one">> ELSE NoCalls
    /\ UNCHANGED <<client, database, entity, store, nextOid, clock, pending,
                   submitted, deleted>>

\* GET /venue_photos/{venue_id}
GetVenuePhotos(venue_id, ties) ==
    IF get_database(database) # None /\ StoreRaises(client)
    THEN Raised("list_photos", "venue_photos", venue_id, NoBody, <<"find">>)
    ELSE
    /\ resp' = IF get_database(database) = None
               THEN Response("list_photos", "venue_photos", venue_id, 500, FALSE,
                             FALSE, NoBody, NoBody)
               ELSE LET docs == store["venue_photos"]
                        photos == to_list(SortDescending(docs,
                                      find_by_field(docs, "venue_id", venue_id), ties),
                                      ListLimit) IN
                    Response("list_photos", "venue_photos", venue_id, 200, FALSE,
                             FALSE, NoBody,
                             [k \in 1..Len(photos) |->
                                [WithStrId(WithoutContent(photos[k]))
                                    EXCEPT !["uploaded_at"] = Isoformat(@)]])
    /\ calls' = IF get_database(database) = None THEN NoCalls ELSE <<"find">>
    /\ UNCHANGED <<client, database, entity, store, nextOid, clock, pending,
                   submitted, deleted>>

Next ==
    \/ ConnectToMongo
    \/ \E p \in CreatePayloads(entity) : \E t \in HandleTruth : CreateEntity(entity, p, t)
    \/ \E t \in HandleTruth : ListEntities(entity, t)
    \/ \E i \in IdInputs : GetEntity(entity, i)
    \/ \E i \in IdInputs : \E b \in UpdatePayloads(entity) : UpdateFind(entity, i, b)
    \/ \E r \in pending : UpdateWrite(r)
    \/ \E i \in IdInputs : DeleteEntity(entity, i)

Spec == Init /\ [][Next]_vars

-----------------------------------------------------------------------------
(* Listing: behaviours that start with a collection filled to about the cap *)

OwnerIds == {"o1", "o2"}

\* file.read(): the bytes, as their number and a name for their value
Content(len, data) == [len |-> len, data |-> data]

Files == {[filename |-> "a.png", content_type |-> "image/png",
           content |-> Content(1, "a")]}

\* the ObjectIds of the records stored before the behaviour starts
StoredObjectId(k) == NewObjectId(MaxIds + 1 + k)

StoredDoc(c, k) ==
    IF c = "venue_photos"
    THEN [venue_id |-> "o1", filename |-> "a.png", content_type |-> "image/png",
          content |-> Content(1, "a"), uploaded_at |-> k, _id |-> StoredObjectId(k)]
    ELSE [f \in Fields(c) \cup {"_id"} |->
            IF f = "_id" THEN StoredObjectId(k) ELSE CreateValue]

StoredSizes == (ListLimit - 1)..(ListLimit + MaxOver)

InitList ==
    /\ client = "client"
    /\ database = "db"
    /\ entity \in EntityCollections \cup {"venue_photos"}
    /\ \E n \in StoredSizes :
          /\ store = [c \in Collections |->
                        IF c = entity THEN [k \in 1..n |-> StoredDoc(c, k)] ELSE <<>>]
          /\ clock = IF entity = "venue_photos" THEN n ELSE 0
    /\ nextOid = 0
    /\ pending = {}
    /\ resp = NoResponse
    /\ calls = NoCalls
    /\ submitted = {}
    /\ deleted = {}

ListIdInputs == IdInputs \cup {ObjectIdStr(StoredObjectId(1))}

NextList ==
    \/ /\ entity \in EntityCollections
       /\ \/ \E p \in CreatePayloads(entity) : \E t \in HandleTruth :
                CreateEntity(entity, p, t)
          \/ \E t \in HandleTruth : ListEntities(entity, t)
          \/ \E i \in ListIdInputs : DeleteEntity(entity, i)
    \/ /\ entity = "venue_photos"
       /\ \/ \E v \in OwnerIds : \E f \in Files :
                \E t \in {u \in {clock - 1, clock, clock + 1} : u >= 0} :
                    UploadVenuePhoto(v, f, t)
          \/ \E v \in OwnerIds : \E o \in TieOrders : GetVenuePhotos(v, o)

SpecList == InitList /\ [][NextList]_vars

-----------------------------------------------------------------------------
(* Assets: behaviours over one asset kind, the entity that owns its assets  *)
(* (one record of it stored before the behaviour starts) and the entity     *)
(* that refers to the owner                                                 *)

\* posters and videos belong to events, photos to venues
Owner(c) == IF c = "venue_photos" THEN "venues" ELSE "events"

\* Booking.event_id refers to an event, Event.venue_id to a venue
Referrer(c) == IF c = "venue_photos" THEN "events" ELSE "bookings"

ExistingOwnerId == ObjectIdStr(StoredObjectId(1))
AbsentOwnerId == ObjectIdStr(NewObjectId(MaxIds + 1))
OwnerInputs == {ExistingOwnerId, AbsentOwnerId}

\* uploaded files: two small ones, one of exactly 16 MiB and one a byte larger
UploadFiles ==
    {[filename |-> "a.png", content_type |-> "image/png", content |-> Content(1, "a")],
     [filename |-> "b.mp4", content_type |-> "video/mp4", content |-> Content(2, "b")],
     [filename |-> "c.mp4", content_type |-> "video/mp4",
      content |-> Content(MaxVideoBytes, "c")],
     [filename |-> "d.mp4", content_type |-> "video/mp4",
      content |-> Content(MaxVideoBytes + 1, "d")]}

UploadTimes == {u \in {clock - 1, clock, clock + 1} : u >= 0}

\* create bodies of the referring entity, naming the stored owner or no record
ReferrerPayloads(c) ==
    {[f \in Required(Referrer(c)) |-> IF f = OwnerField(c) THEN o ELSE CreateValue] :
        o \in OwnerInputs}

\* update bodies for the owner
OwnerUpdates(c) == {b \in UpdatePayloads(Owner(c)) : DOMAIN b = {Primary(Owner(c))}
                                                      /\ b[Primary(Owner(c))] = "v2"}

InitAssets ==
    /\ client = None
    /\ database = None
    /\ entity \in AssetCollections
    /\ store = [c \in Collections |->
                  IF c = Owner(entity) THEN <<StoredDoc(c, 1)>> ELSE <<>>]
    /\ nextOid = 0
    /\ clock = 0
    /\ pending = {}
    /\ resp = NoResponse
    /\ calls = NoCalls
    /\ submitted = {}
    /\ deleted = {}

NextAssets ==
    \/ ConnectToMongo
    \/ /\ entity = "event_posters"
       /\ \E o \in OwnerInputs : \E f \in UploadFiles : \E t \in UploadTimes :
             UploadEventPoster(o, f, t)
    \/ /\ entity = "promotional_videos"
       /\ \E o \in OwnerInputs : \E f \in UploadFiles : \E t \in UploadTimes :
             UploadPromotionalVideo(o, f, t)
    \/ /\ entity = "venue_photos"
       /\ \E o \in OwnerInputs : \E f \in UploadFiles : \E t \in UploadTimes :
             UploadVenuePhoto(o, f, t)
    \/ /\ entity \in {"event_posters", "promotional_videos"}
       /\ \E o \in OwnerInputs : \E ties \in TieOrders : GetAssetMetadata(entity, o, ties)
    \/ /\ entity = "venue_photos"
       /\ \E o \in OwnerInputs : \E ties \in TieOrders : GetVenuePhotos(o, ties)
    \/ \E i \in IdInputs : GetAssetFile(entity, i)
    \/ \E p \in ReferrerPayloads(entity) : \E t \in HandleTruth :
          CreateEntity(Referrer(entity), p, t)
    \/ \E i \in OwnerInputs : \E b \in OwnerUpdates(entity) :
          UpdateFind(Owner(entity), i, b)
    \/ \E r \in pending : UpdateWrite(r)
    \/ \E i \in OwnerInputs : DeleteEntity(Owner(entity), i)
    \/ \E k \in 1..MaxIds :
          DeleteEntity(Referrer(entity), ObjectIdStr(NewObjectId(k)))

SpecAssets == InitAssets /\ [][NextAssets]_vars

-----------------------------------------------------------------------------
(* Racing updates: behaviours over one stored record, with up to MaxRacing  *)
(* update requests between their existence check and their write            *)

RaceId == ObjectIdStr(StoredObjectId(1))

\* update bodies over the two payload fields: each a value or null
RacePayloads(c) ==
    {b \in UNION {[S -> Values \cup {None}] : S \in SUBSET PayloadFields(c)} :
        DOMAIN b # {}}

InitRace ==
    /\ client = "client"
    /\ database = "db"
    /\ entity \in EntityCollections
    /\ store = [c \in Collections |->
                  IF c = entity THEN <<StoredDoc(c, 1)>> ELSE <<>>]
    /\ nextOid = 0
    /\ clock = 0
    /\ pending = {}
    /\ resp = NoResponse
    /\ calls = NoCalls
    /\ submitted = {}
    /\ deleted = {}

NextRace ==
    \/ \E b \in RacePayloads(entity) : UpdateFindWithin(entity, RaceId, b, MaxRacing)
    \/ \E r \in pending : UpdateWrite(r)
    \/ GetEntity(entity, RaceId)

SpecRace == InitRace /\ [][NextRace]_vars

-----------------------------------------------------------------------------
(* Lifecycle: behaviours from before startup to after shutdown, with a      *)
(* server that may stop answering, over one record's requests               *)

PingOutcomes == {"ok", "failed"}

LifecycleIds == {ObjectIdStr(NewObjectId(1)), UpperStr(NewObjectId(1)),
                 SubSeq(ObjectIdStr(NewObjectId(1)), 1, ObjectIdHexLen - 1)}

LifecyclePayloads(c) ==
    {b \in UpdatePayloads(c) : DOMAIN b = {Primary(c)}}

NextLifecycle ==
    \/ \E ping \in PingOutcomes : connect_to_mongo(ping)
    \/ close_mongo_connection
    \/ ServerLost
    \/ ServerBack
    \/ HealthCheck
    \/ \E p \in CreatePayloads(entity) : \E t \in HandleTruth : CreateEntity(entity, p, t)
    \/ \E t \in HandleTruth : ListEntities(entity, t)
    \/ \E i \in LifecycleIds : GetEntity(entity, i)
    \/ \E i \in LifecycleIds : \E b \in LifecyclePayloads(entity) :
          UpdateFind(entity, i, b)
    \/ \E r \in pending : UpdateWrite(r)
    \/ \E i \in LifecycleIds : DeleteEntity(entity, i)

SpecLifecycle == Init /\ [][NextLifecycle]_vars

TypeOK == nextOid \in 0..MaxIds

-----------------------------------------------------------------------------
(* Properties *)

ByIdOps == {"get", "update", "delete"}

\* every field of the payload is absent or null
AllNull(data) == \A f \in DOMAIN data : data[f] = None

\* the payload with the returned id added as _id
PlusId(p, i) == [f \in DOMAIN p \cup {"_id"} |-> IF f = "_id" THEN i ELSE p[f]]

\* the creates whose record the last response is about
SubmittedFor(r) == {e \in submitted : e.coll = r.coll /\ e.id = r.id}

\* C1 (as stated): a get on the id a create returned, with no update or delete
\* of that id in between, returns exactly the fields of the submitted payload
\* plus _id equal to the returned id.
C1_GetReturnsPayloadPlusId ==
    resp.op = "get" =>
        \A e \in SubmittedFor(resp) :
            resp.status = 200 /\ resp.body = PlusId(e.payload, e.id)

\* C1 (amended): the get returns every field of the entity, those of the
\* payload with the submitted values and an optional field the payload omitted
\* (an attendee's phone) as null, plus _id equal to the returned id.
C1_GetReturnsModelPlusId ==
    resp.op = "get" =>
        \A e \in SubmittedFor(resp) :
            /\ resp.status = 200
            /\ resp.body = PlusId(e.payload, e.id)
                    @@ [f \in Fields(e.coll) \ DOMAIN e.payload |-> None]

C1_Witness ==
    /\ resp.op = "get"
    /\ resp.status = 200
    /\ \E e \in SubmittedFor(resp) : "phone" \in Fields(e.coll) \ DOMAIN e.payload

\* C2: once a delete of an id has succeeded, every later get of that id
\* answers 404, whatever was created, updated or deleted since.
C2_DeletedStaysGone ==
    (resp.op = "get" /\ validate_object_id(resp.id).ok
        /\ <<resp.coll, validate_object_id(resp.id).oid>> \in deleted)
    => resp.status = 404

C2_Witness ==
    /\ resp.op = "get"
    /\ validate_object_id(resp.id).ok
    /\ <<resp.coll, validate_object_id(resp.id).oid>> \in deleted
    /\ Len(store[resp.coll]) >= 1
    /\ resp.status = 404

\* the effect of the update_one of request r on the store, where Supplied(f)
\* says which payload fields the claim takes to be written
UpdateFrame(r, Supplied(_)) ==
    LET c == r.coll
        k == IndexOf(store[c], validate_object_id(r.id).oid) IN
    /\ k # 0
    /\ \A d \in Collections \ {c} : store'[d] = store[d]
    /\ Len(store'[c]) = Len(store[c])
    /\ \A j \in 1..Len(store[c]) : j # k => store'[c][j] = store[c][j]
    /\ DOMAIN store'[c][k] = DOMAIN store[c][k]
    /\ store'[c][k]["_id"] = store[c][k]["_id"]
    /\ \A f \in Fields(c) :
          store'[c][k][f] = IF Supplied(f) THEN r.data[f] ELSE store[c][k][f]

\* C3 (as stated): a successful update sets exactly the fields present in the
\* payload to the supplied values and changes nothing else.
C3_UpdateSetsPresentFields ==
    [][\A r \in pending \ pending' :
          resp'.status = 200 =>
              LET Present(f) == f \in DOMAIN r.data IN UpdateFrame(r, Present)]_vars

\* C3 (amended): a successful update sets exactly the fields the payload
\* supplies with a non-null value; a field absent from the payload or supplied
\* as null, the record's id and every other record are unchanged.
C3_UpdateSetsNonNullFields ==
    [][\A r \in pending \ pending' :
          resp'.status = 200 =>
              LET NonNull(f) == f \in DOMAIN r.data /\ r.data[f] # None
              IN UpdateFrame(r, NonNull)]_vars

C3_Witness ==
    /\ resp.op = "update"
    /\ resp.status = 200
    /\ \E f \in DOMAIN resp.data : resp.data[f] = None
    /\ Len(store[resp.coll]) >= 2

\* C4: an update of an existing record whose payload has every field absent
\* or null is answered 400 and leaves the store as it was.
C4_EmptyUpdateRejected ==
    [][\A r \in pending \ pending' :
          AllNull(r.data) => resp'.status = 400 /\ store' = store]_vars

C4_Witness ==
    /\ resp.op = "update"
    /\ resp.found
    /\ resp.existed
    /\ DOMAIN resp.data # {}
    /\ AllNull(resp.data)
    /\ resp.status = 400

C6_MalformedIsBadRequest ==
    resp.op \in ByIdOps =>
        /\ ~validate_object_id(resp.id).ok => resp.status = 400
        /\ (validate_object_id(resp.id).ok /\ ~resp.found) => resp.status = 404

\* C7: for an existing record the update answers 400 exactly when the
\* payload without its absent and null fields is empty, and 200 otherwise,
\* whatever the stored values are.
C7_BadRequestIffEmpty ==
    (resp.op = "update" /\ resp.found /\ resp.existed) =>
        /\ resp.status = 400 <=> AllNull(resp.data)
        /\ resp.status \in {200, 400}

\* C8: an update applied when the record no longer exists is answered 404,
\* never 400 or 200.
C8_UpdateOfMissingIsNotFound ==
    (resp.op = "update" /\ ~resp.existed) => resp.status = 404

ListedFrom(r) ==
    IF r.op = "list" THEN 1..Len(store[r.coll])
    ELSE find_by_field(store[r.coll], "venue_id", r.id)

Listed(r, doc) ==
    IF r.op = "list" THEN [doc EXCEPT !["_id"] = ObjectIdStr(@)]
    ELSE [f \in DOMAIN doc \ {"content"} |->
            CASE f = "_id" -> ObjectIdStr(doc[f])
              [] f = "uploaded_at" -> Isoformat(doc[f])
              [] OTHER -> doc[f]]

\* C10: a listing that succeeds returns min(N, 100) records, N the number of
\* stored records that match: never more than 100, no record twice, each one
\* a record now stored, with its identifier as a string.
C10_ListingCapped ==
    (resp.op \in {"list", "list_photos"} /\ resp.status = 200) =>
        LET M == ListedFrom(resp)
            N == Cardinality(M)
            stored == {Listed(resp, store[resp.coll][k]) : k \in M} IN
        /\ Len(resp.body) = IF N < ListLimit THEN N ELSE ListLimit
        /\ Len(resp.body) <= ListLimit
        /\ \A p \in 1..Len(resp.body) : resp.body[p] \in stored
        /\ Cardinality({resp.body[p]["_id"] : p \in 1..Len(resp.body)})
                = Len(resp.body)

C10_Witness ==
    /\ resp.op = "list_photos"
    /\ resp.status = 200
    /\ Cardinality(ListedFrom(resp)) > ListLimit
    /\ Len(resp.body) = ListLimit

-----------------------------------------------------------------------------
(* Properties of the asset endpoints *)

\* the file fits the store's document limit when uploaded for this owner
Fits(c, o, f) ==
    BsonSize(c, [g \in {OwnerField(c), "filename", "content_type", "content"} |->
                    CASE g = OwnerField(c) -> o
                      [] g = "filename" -> f.filename
                      [] g = "content_type" -> f.content_type
                      [] g = "content" -> f.content]) <= MaxBsonSize

\* the step's response is to an upload of file f for owner o
IsUpload(o, f) == resp'.op = "upload" /\ resp'.data = [owner |-> o, file |-> f]

\* the positions of the assets of an owner
AssetsOf(st, c, o) == {k \in 1..Len(st[c]) : st[c][k][OwnerField(c)] = o}

\* C11: with a store handle, a video upload is answered 400 exactly when its
\* content is longer than 16*1024*1024 bytes; a content of 16 MiB or less is
\* accepted and stored; a rejected upload inserts nothing.
C11_VideoRejectedIffOver16MiB ==
    [][\A o \in OwnerInputs : \A f \in UploadFiles : \A t \in UploadTimes :
          (database # None /\ IsUpload(o, f)
              /\ UploadPromotionalVideo(o, f, t)) =>
              /\ resp'.status = 400 <=> f.content.len > MaxVideoBytes
              /\ f.content.len <= MaxVideoBytes =>
                    /\ resp'.status = 201
                    /\ Len(store'["promotional_videos"])
                            = Len(store["promotional_videos"]) + 1
              /\ resp'.status = 400 => store' = store]_vars

\* C12: for each asset kind, an upload whose content is longer than 16 MiB is
\* answered with a failure and leaves the store as it was.
C12_OversizeUploadRejected ==
    [][\A o \in OwnerInputs : \A f \in UploadFiles : \A t \in UploadTimes :
          (f.content.len > 16 * 1024 * 1024 /\ IsUpload(o, f)
              /\ UploadAsset(entity, o, f, t)) =>
              /\ resp'.status \in {400, 500}
              /\ store' = store]_vars

C12_Witness ==
    /\ resp.op = "upload"
    /\ resp.coll = "event_posters"
    /\ resp.data.file.content.len > 16 * 1024 * 1024
    /\ Len(store["event_posters"]) >= 1
    /\ resp.status = 500

\* the uploads whose asset id the last response is about
UploadedAs(r) ==
    {e \in submitted : e.coll = r.coll /\ ParseTable[e.id].oid = ParseTable[r.id].oid}

\* C13: file retrieval by the id a successful upload returned answers with
\* the uploaded bytes and the content-type given at upload, whatever was
\* uploaded, updated or deleted since; no step changes or removes a stored asset.
C13_AssetStaysRetrievable ==
    [][/\ \A c \in AssetCollections : \A k \in 1..Len(store[c]) :
             Len(store'[c]) >= k /\ store'[c][k] = store[c][k]
       /\ (resp'.op = "file" /\ ParseTable[resp'.id].ok) =>
             \A e \in UploadedAs(resp)' :
                /\ resp'.status = 200
                /\ resp'.body.content = e.payload.file.content
                /\ resp'.body.media_type = e.payload.file.content_type]_vars

C13_Witness ==
    /\ resp.op = "file"
    /\ resp.status = 200
    /\ ParseTable[resp.id].ok
    /\ \E e \in UploadedAs(resp) :
          /\ e.payload.owner = ExistingOwnerId
          /\ \E l \in submitted :
                l.coll = e.coll /\ l.id # e.id /\ l.payload.owner = e.payload.owner
                    /\ IndexOf(store[l.coll], ParseTable[l.id].oid)
                            > IndexOf(store[e.coll], ParseTable[e.id].oid)
    /\ <<Owner(resp.coll), StoredObjectId(1)>> \in deleted

\* C14: poster and video metadata for owner E is that of the asset of E
\* whose upload completed last, also when the uploads overlapped; it is never
\* an asset of another owner and carries no raw bytes.
C14_MetadataOfLastUpload ==
    [][\A o \in OwnerInputs : \A ties \in TieOrders :
          (entity # "venue_photos" /\ resp'.op = "metadata" /\ resp'.status = 200
              /\ GetAssetMetadata(entity, o, ties)) =>
              LET M == AssetsOf(store, entity, o)
                  last == CHOOSE k \in M : \A j \in M : j <= k IN
              /\ M # {}
              /\ resp'.body.id = ObjectIdStr(store[entity][last]["_id"])
              /\ resp'.body.event_id = o
              /\ "content" \notin DOMAIN resp'.body]_vars

\* C15 (as stated): for each of the three asset kinds, metadata retrieval for
\* an owner without an uploaded asset is answered 404.
C15_NoAssetIsNotFound ==
    [][\A o \in OwnerInputs : \A ties \in TieOrders :
          (database # None /\ resp'.op \in {"metadata", "list_photos"}
              /\ AssetsOf(store, entity, o) = {}
              /\ \/ entity # "venue_photos" /\ GetAssetMetadata(entity, o, ties)
                 \/ entity = "venue_photos" /\ GetVenuePhotos(o, ties))
          => resp'.status = 404]_vars

\* C15 (amended): with a store handle, poster and video metadata retrieval for
\* an owner without an uploaded asset is answered 404; the venue-photo
\* listing for such an owner is answered 200 with an empty list.
C15_NoAssetNotFoundOrEmpty ==
    [][\A o \in OwnerInputs : \A ties \in TieOrders :
          (database # None /\ resp'.op \in {"metadata", "list_photos"}
              /\ AssetsOf(store, entity, o) = {}) =>
              /\ (entity # "venue_photos" /\ GetAssetMetadata(entity, o, ties))
                    => resp'.status = 404
              /\ (entity = "venue_photos" /\ GetVenuePhotos(o, ties))
                    => resp'.status = 200 /\ resp'.body = <<>>]_vars

C15_Witness ==
    /\ resp.op = "list_photos"
    /\ resp.status = 200
    /\ Len(resp.body) = 0
    /\ Len(store["venue_photos"]) >= 1
    /\ AssetsOf(store, "venue_photos", resp.id) = {}

\* C16: with a store handle, file retrieval answers 400 for a malformed
\* identifier, 404 for a well-formed one that matches no asset, and 200 with
\* the stored bytes otherwise.
C16_FileRetrievalStatus ==
    [][\A i \in IdInputs :
          (database # None /\ resp'.op = "file" /\ resp'.id = i
              /\ GetAssetFile(entity, i)) =>
              LET v == ParseTable[i]
                  k == IF v.ok THEN IndexOf(store[entity], v.oid) ELSE 0 IN
              /\ ~v.ok => resp'.status = 400
              /\ (v.ok /\ k = 0) => resp'.status = 404
              /\ (v.ok /\ k # 0) =>
                    /\ resp'.status = 200
                    /\ resp'.body.content = store[entity][k]["content"]]_vars

C16_Witness ==
    /\ resp.op = "file"
    /\ resp.status = 400
    /\ ~ParseTable[resp.id].ok
    /\ Len(store[resp.coll]) >= 1

\* C20: creating a referring record or uploading an asset succeeds whether or
\* not the record it names exists, and a delete leaves every other collection
\* as it was.
C20_ReferencesNotEnforced ==
    [][/\ \A p \in ReferrerPayloads(entity) : \A t \in HandleTruth :
             (database # None /\ resp'.op = "create" /\ resp'.data = p
                /\ CreateEntity(Referrer(entity), p, t))
                => resp'.status = 201
       /\ \A o \in OwnerInputs : \A f \in UploadFiles : \A t \in UploadTimes :
             (database # None /\ IsUpload(o, f) /\ Fits(entity, o, f)
                /\ UploadAsset(entity, o, f, t))
                => resp'.status = 201
       /\ \A i \in OwnerInputs :
             (resp'.op = "delete" /\ resp'.id = i /\ DeleteEntity(Owner(entity), i)) =>
                \A c \in Collections \ {Owner(entity)} : store'[c] = store[c]]_vars

\* a dangling reference: an asset and a referring record that name a deleted owner
C20_Witness ==
    /\ <<Owner(entity), StoredObjectId(1)>> \in deleted
    /\ store[Owner(entity)] = <<>>
    /\ AssetsOf(store, entity, ExistingOwnerId) # {}
    /\ \E k \in 1..Len(store[Referrer(entity)]) :
          store[Referrer(entity)][k][OwnerField(entity)] = ExistingOwnerId

\* C17: create and list answer 500 and insert nothing when there is no store
\* handle; with a handle, a valid create inserts exactly one record and
\* answers 201 with its new id.
C17_CreateNeedsOnlyHandle ==
    [][\A t \in HandleTruth :
          /\ \A p \in CreatePayloads(entity) :
                (resp'.op = "create" /\ CreateEntity(entity, p, t)) =>
                    IF database = None
                    THEN resp'.status = 500 /\ store' = store
                    ELSE /\ resp'.status = 201
                         /\ Len(store'[entity]) = Len(store[entity]) + 1
                         /\ SubSeq(store'[entity], 1, Len(store[entity])) = store[entity]
                         /\ resp'.id = ObjectIdStr(store'[entity][Len(store'[entity])]["_id"])
                         /\ ~ExistsId(store, entity, resp'.id)
          /\ (database = None /\ resp'.op = "list" /\ ListEntities(entity, t)) =>
                resp'.status = 500 /\ store' = store]_vars

\* C18: without a store handle, get, update and delete are answered 500.
C18_ByIdNeedsHandle ==
    (resp.op \in ByIdOps /\ database = None) => resp.status = 500

\* C19: the four entities answer a create and a list alike: in the same
\* connection state and under the same driver, each entity's endpoint gives
\* the status the exercised entity's endpoint gave.
C19_UniformContract ==
    [][\A t \in HandleTruth : \A c \in EntityCollections :
          /\ \A p \in CreatePayloads(entity) :
                (resp'.op = "create" /\ CreateEntity(entity, p, t)) =>
                    (resp'.status = 201 <=> ConnectionCheck(c, database, t) = 200)
          /\ (resp'.op = "list" /\ ListEntities(entity, t)) =>
                resp'.status = ConnectionCheck(c, database, t)]_vars

-----------------------------------------------------------------------------
(* Properties of concurrent requests *)

\* the fields an update body sets: those it supplies with a value
Supplied(data) == {f \in DOMAIN data : data[f] # None}

\* C21: the write of an update request sets every field its body supplies
\* with a value, all in one step, and leaves every other field as it was; so
\* when it follows the write of another update of the same record, the fields
\* only the earlier one supplied keep the earlier values (disjoint updates
\* both take effect) and the fields both supplied hold the later values
C21_ConcurrentUpdatesCompose ==
    [][\A r \in pending \ pending' :
         LET k == IndexOf(store[r.coll], ParseObjectId(r.id).oid) IN
         /\ k # 0
         /\ Len(store'[r.coll]) = Len(store[r.coll])
         /\ \A f \in DOMAIN store[r.coll][k] :
               store'[r.coll][k][f] = IF f \in Supplied(r.data) THEN r.data[f]
                                      ELSE store[r.coll][k][f]
         /\ (resp.op = "update" /\ resp.status = 200 /\ resp.coll = r.coll
                /\ resp.id = r.id)
              => \A f \in Supplied(resp.data) :
                    store'[r.coll][k][f] = IF f \in Supplied(r.data) THEN r.data[f]
                                           ELSE resp.data[f]]_vars

\* one update of a record has been written while another one, supplying other
\* fields, is between its existence check and its write
C21_Witness ==
    \E r \in pending :
        /\ resp.op = "update" /\ resp.status = 200
        /\ resp.coll = r.coll /\ resp.id = r.id
        /\ Supplied(r.data) # {} /\ Supplied(resp.data) # {}
        /\ Supplied(r.data) \cap Supplied(resp.data) = {}
        /\ LET k == IndexOf(store[r.coll], ParseObjectId(r.id).oid) IN
           k # 0 /\ \A f \in Supplied(resp.data) : store[r.coll][k][f] = resp.data[f]

\* C22: a create or upload that succeeds returns an identifier that no record
\* of the collection has and none deleted from it had, and adds one record
\* under that identifier, whatever records of the same content are stored
C22_FreshIdentifier ==
    [][(resp'.op \in {"create", "upload"} /\ resp'.status = 201
          /\ nextOid' = nextOid + 1)
       => LET c == resp'.coll
              v == ParseObjectId(resp'.id) IN
          /\ v.ok
          /\ \A k \in 1..Len(store[c]) : store[c][k]["_id"] # v.oid
          /\ <<c, v.oid>> \notin deleted
          /\ Len(store'[c]) = Len(store[c]) + 1
          /\ store'[c][Len(store'[c])]["_id"] = v.oid
          /\ SubSeq(store'[c], 1, Len(store[c])) = store[c]]_vars

\* a record was created in a collection after another one was deleted from
\* it, and is stored under the identifier returned
C22_Witness ==
    /\ resp.op = "create" /\ resp.status = 201
    /\ \E d \in deleted : d[1] = resp.coll /\ ObjectIdStr(d[2]) # resp.id
    /\ \E k \in 1..Len(store[resp.coll]) :
          ObjectIdStr(store[resp.coll][k]["_id"]) = resp.id

\* C23: no step replaces a non-null field of a stored record by null: a record
\* that stays in its collection keeps a non-null value in every field that
\* held one, whatever nulls the update bodies supply
C23_NonNullStaysNonNull ==
    [][store' # store
       => \A k \in 1..Len(store[entity]) : \A j \in 1..Len(store'[entity]) :
             store'[entity][j]["_id"] = store[entity][k]["_id"]
             => \A f \in DOMAIN store[entity][k] \ {"_id"} :
                   store[entity][k][f] # None
                   => f \in DOMAIN store'[entity][j] /\ store'[entity][j][f] # None]_vars

\* an update whose body supplies one field with a value and another as null
\* was applied, and the record holds no null
C23_Witness ==
    /\ resp.op = "update" /\ resp.status = 200
    /\ \E f \in DOMAIN resp.data : resp.data[f] = None
    /\ \E f \in DOMAIN resp.data : resp.data[f] # None
    /\ \E k \in 1..Len(store[resp.coll]) :
          /\ ObjectIdStr(store[resp.coll][k]["_id"]) = ObjectIdStr(ParseTable[resp.id].oid)
          /\ \A f \in DOMAIN store[resp.coll][k] \ {"_id"} :
                store[resp.coll][k][f] # None

-----------------------------------------------------------------------------
(* Properties of the connection lifecycle *)

\* C24: GET /health is answered 200 with status healthy and the configured
\* database name, and with connected true exactly when connect_to_mongo has
\* assigned the handle: false before startup, true from then on, also with
\* the server unreachable and after shutdown
C24_HealthReportsHandle ==
    [][HealthCheck
       => /\ resp'.status = 200
          /\ resp'.body.status = "healthy"
          /\ resp'.body.database = DatabaseName
          /\ resp'.body.connected = (database # None)
          /\ resp'.body.connected = (client # None)]_vars

\* a health report with connected true after the client was closed
C24_Witness ==
    /\ resp.op = "health"
    /\ resp.body.connected
    /\ client = "closed"

-----------------------------------------------------------------------------
(* Properties of the helpers and of the requests' effect on the store *)

\* C25: for every identifier and update data, update_by_id returns true
\* exactly when there is a handle, the identifier is that of a stored record
\* and some field supplied with a value differs from the stored one; when it
\* returns false (no handle, malformed id, no record, nothing supplied with a
\* value, all values as stored) the store it leaves is the one it found
C25_UpdateByIdResult ==
    \A i \in IdInputs : \A b \in UpdatePayloads(entity) :
        LET u == update_by_id(database, store, entity, i, b)
            k == IF ParseTable[i].ok
                 THEN IndexOf(store[entity], ParseTable[i].oid) ELSE 0
            differs == /\ database # None
                       /\ k # 0
                       /\ \E f \in DOMAIN b : /\ b[f] # None
                                               /\ store[entity][k][f] # b[f] IN
        /\ u.ok = differs
        /\ ~u.ok => u.store = store

\* an update request came to update_by_id with a stored record's id and data
\* that supplies only values the record holds, and was answered 400
C25_Witness ==
    /\ resp.op = "update" /\ resp.status = 400 /\ resp.found /\ resp.existed
    /\ \E f \in DOMAIN resp.data : resp.data[f] # None
    /\ \E k \in 1..Len(store[resp.coll]) :
          /\ store[resp.coll][k]["_id"] = ParseTable[resp.id].oid
          /\ \A f \in DOMAIN resp.data :
                resp.data[f] # None => store[resp.coll][k][f] = resp.data[f]

\* C26 (as stated): every request issues at most one store call
C26_AtMostOneStoreCall == Len(calls) <= 1

\* the store calls a request of each kind may issue
CallsOf(op) ==
    CASE op \in {"create", "upload"} -> {NoCalls, <<"insert_one">>}
      [] op \in {"list", "list_photos"} -> {NoCalls, <<"find">>}
      [] op \in {"get", "metadata", "file"} -> {NoCalls, <<"find_one">>}
      [] op = "delete" -> {NoCalls, <<"delete_one">>}
      [] op = "update" -> {NoCalls, <<"find_one">>, <<"find_one", "update_one">>}
      [] OTHER -> {NoCalls}

\* C26 (amended): every request other than an update issues at most one store
\* call, and an update at most two, find_one and then update_one; no call is
\* issued a second time; a store call that fails is the request's last: the
\* request is answered 500 at that step, with nothing written and no update
\* left in flight
C26_NoRetry ==
    [][/\ calls' \in CallsOf(resp'.op)
       /\ (StoreRaises(client) /\ client' = client)
          => LET issued == IF pending' # pending THEN Len(calls') - 1
                           ELSE Len(calls') IN
             /\ store' = store
             /\ pending' \subseteq pending
             /\ issued <= 1
             /\ issued = 1 => resp'.status = 500]_vars

\* an update whose find_one succeeded and whose update_one failed
C26_Witness ==
    /\ resp.op = "update"
    /\ resp.status = 500
    /\ calls = <<"find_one", "update_one">>

\* C27: a step that changes any collection is a create, upload, update or
\* delete request answered 200 or 201; so a request answered 400, 404 or 500,
\* and a get, list, metadata or file request whatever its answer, leaves every
\* collection as it was
C27_ErrorsLeaveStore ==
    [][store' # store
       => /\ resp'.op \in {"create", "upload", "update", "delete"}
          /\ resp'.status \in {200, 201}]_vars

\* an update that reached update_one on a stored record was answered 400
C27_Witness ==
    /\ resp.op = "update" /\ resp.status = 400 /\ resp.existed
    /\ calls = <<"find_one", "update_one">>
    /\ \E c \in AssetCollections : store[c] # <<>>

\* the identifiers of a collection's records, in natural order
IdsOf(st, c) == [k \in 1..Len(st[c]) |-> st[c][k]["_id"]]

\* C28: no step of an update request, its existence check or its write,
\* changes the identifiers stored in any collection: none is added, also when
\* the record was deleted after the existence check, and none is removed
C28_UpdateKeepsIdentifiers ==
    [][(pending' # pending \/ (resp'.op = "update" /\ resp' # resp))
       => \A c \in Collections : IdsOf(store', c) = IdsOf(store, c)]_vars

\* an update whose record was deleted between its existence check and its
\* write has been answered, and the collection has no record of that id
C28_Witness ==
    /\ resp.op = "update" /\ resp.found /\ ~resp.existed
    /\ calls = <<"find_one", "update_one">>
    /\ ~ExistsId(store, resp.coll, resp.id)

\* C29: of the delete requests for one stored record, whose store calls come
\* in some order, the one whose call comes first is answered 200 and removes
\* the record, and every later one is answered 404 and removes nothing: a
\* delete answered 200 is never one of an identifier deleted before
C29_ConcurrentDeletes ==
    [][\A i \in WellFormedIds :
          (resp'.op = "delete" /\ resp'.id = i /\ database # None
             /\ DeleteEntity(entity, i))
          => LET oid == ParseTable[i].oid IN
             /\ Exists(store, entity, oid)
                => /\ resp'.status = 200
                   /\ ~Exists(store', entity, oid)
                   /\ Len(store'[entity]) = Len(store[entity]) - 1
                   /\ <<entity, oid>> \notin deleted
             /\ <<entity, oid>> \in deleted
                => /\ resp'.status = 404
                   /\ store' = store
             /\ resp'.status = 200 <=> Exists(store, entity, oid)]_vars

\* a second delete of a record reached the store after the first had removed
\* it and was answered 404
C29_Witness ==
    /\ resp.op = "delete" /\ resp.status = 404
    /\ calls = <<"delete_one">>
    /\ resp.id \in WellFormedIds
    /\ <<resp.coll, ParseTable[resp.id].oid>> \in deleted
    /\ ~Exists(store, resp.coll, ParseTable[resp.id].oid)

\* C30: once assigned, the handle is never changed: a startup whose ping
\* failed and a shutdown leave get_database() with a handle, and a create
\* request that comes then passes its connection check and fails in its
\* store call
C30_HandleNeverReset ==
    [][/\ database # None => database' = database
       /\ client' # client => get_database(database') # None
       /\ (client \in {"closed", "unreachable"} /\ resp'.op = "create")
          => \A p \in CreatePayloads(entity) :
                (resp'.data = p /\ CreateEntity(entity, p, "truthy"))
                => resp'.status = 500 /\ calls' = <<"insert_one">>]_vars

\* after shutdown a create request passed its connection check and failed in
\* insert_one
C30_Witness ==
    /\ client = "closed"
    /\ database # None
    /\ resp.op = "create" /\ resp.status = 500
    /\ calls = <<"insert_one">>

====
